---- MODULE Spec2Model ----
(***************************************************************************)
(* Model of server.js: the receipt upload server.  Two POST routes          *)
(* (/upload-pdf, /upload-image) sit behind one rate limiter, a request      *)
(* counting middleware and the multipart upload middleware; each handler    *)
(* reads the stored file, extracts or normalises it, calls the completion   *)
(* API, updates the usage counters, deletes the stored file and answers.    *)
(*                                                                         *)
(* Node runs one handler continuation at a time, so every action below is   *)
(* the code that runs between two suspension points (await) of one request. *)
(* Requests in flight occupy the slots 1..MaxInFlight; their continuations  *)
(* interleave freely.                                                       *)
(***************************************************************************)
EXTENDS Integers, Sequences, FiniteSets, TLC

(* ------------------------------ bounds -------------------------------- *)
\* requests being processed at the same time: the first MaxInFlight arrivals
\* may overlap, later requests arrive one at a time
MaxInFlight == 2
\* requests that arrive in one run
MaxArrivals == 7
\* largest total_tokens a completion reports
MaxTokens == 1
\* cap of totalTokensUsed: once a completion's tokens would pass it, only
\* completions that report fewer tokens arrive
MaxTotalTokens == 4

(* ------------------------- program constants -------------------------- *)
\* server.js:30
max == 5
\* server.js:61
fileSize == 20 * 1024 * 1024
\* server.js:179
MAX_SIZE_MB == 15
\* server.js:180
MAX_SIZE_BYTES == MAX_SIZE_MB * 1024 * 1024

Slots == 1..MaxInFlight
Clients == {"10.0.0.1", "10.0.0.2"}
PdfRoute == "/upload-pdf"
ImageRoute == "/upload-image"
Routes == {PdfRoute, ImageRoute}
\* the multipart field the route's upload.single(...) expects
ExpectedField(route) == IF route = PdfRoute THEN "pdf" ELSE "image"
\* the multipart field of the other route
OtherField(route) == IF route = PdfRoute THEN "image" ELSE "pdf"
\* byte sizes of an uploaded file: within the image budget, over it (this
\* matters to /upload-image alone; for 17635840 bytes the exact scale factor
\* is the rational 64/83), over the upload limit
Sizes(route) ==
    IF route = PdfRoute THEN {MAX_SIZE_BYTES, fileSize + 1}
    ELSE {MAX_SIZE_BYTES, MAX_SIZE_BYTES + 1, 17635840, fileSize + 1}
\* A file's content is its length and its leading bytes; the model keeps no
\* more of it.
Buffer(length, bytes) == [length |-> length, bytes |-> bytes]
NoBuffer == Buffer(0, <<>>)
PdfBytes == <<37, 80, 68, 70>>
\* leading bytes of an image: a group of two bytes, which base64 pads, and a
\* full group followed by one more byte
ImageBytes == {<<137, 80>>, <<255, 216, 255, 224>>}
\* what sharp's jpeg output starts with
JpegBytes == <<255, 216, 255>>
\* the contents of an uploaded file of the given size
Files(route, size) ==
    IF route = PdfRoute THEN {Buffer(size, PdfBytes)}
    ELSE IF size > MAX_SIZE_BYTES THEN {Buffer(size, <<137, 80>>)}
    ELSE {Buffer(size, b) : b \in ImageBytes}
\* the file part of a request body: none, a file under the expected field,
\* or a file under another field
Parts(route) ==
    {[field |-> "none", size |-> 0, bytes |-> <<>>]}
    \cup {[field |-> ExpectedField(route), size |-> f.length, bytes |-> f.bytes] :
            f \in UNION {Files(route, n) : n \in Sizes(route)}}
    \cup {[field |-> OtherField(route), size |-> MAX_SIZE_BYTES, bytes |-> PdfBytes]}
\* the dimensions sizeOf reads from an image: <<width, height>>, or <<>> when
\* it throws
Dimensions == {<<>>, <<83, 166>>}

(* ------------------------------- base64 ------------------------------- *)
\* Buffer.toString('base64'): three bytes make four characters of the base64
\* alphabet, a last group of one or two bytes is padded with "=".  A character
\* is held by its index 0..63 in the alphabet, the padding by Pad.
Pad == 64
RECURSIVE Base64(_)
Base64(bytes) ==
    CASE Len(bytes) = 0 -> <<>>
      [] Len(bytes) = 1 ->
           <<bytes[1] \div 4, (bytes[1] % 4) * 16, Pad, Pad>>
      [] Len(bytes) = 2 ->
           <<bytes[1] \div 4, (bytes[1] % 4) * 16 + bytes[2] \div 16,
             (bytes[2] % 16) * 4, Pad>>
      [] OTHER ->
           <<bytes[1] \div 4, (bytes[1] % 4) * 16 + bytes[2] \div 16,
             (bytes[2] % 16) * 4 + bytes[3] \div 64, bytes[3] % 64>>
           \o Base64(SubSeq(bytes, 4, Len(bytes)))

(* ------------------------------- numbers ------------------------------ *)
\* JavaScript numbers are IEEE-754 doubles: a 53 bit significand, every
\* result rounded to the nearest double, ties to even.  A double is held as
\* [m, e], the value m * 2^e with 2^52 <= m < 2^53 (m = 0 for zero); m is a
\* natural number written in limbs of LimbBits bits, least significant first,
\* because it does not fit the integers of the checker.
Precision == 53
LimbBits == 15
Base == 2 ^ LimbBits

RECURSIVE Trim(_)
\* without leading zero limbs
Trim(a) == IF a # <<>> /\ a[Len(a)] = 0 THEN Trim(SubSeq(a, 1, Len(a) - 1)) ELSE a
RECURSIVE FromNat(_)
FromNat(n) == IF n = 0 THEN <<>> ELSE <<n % Base>> \o FromNat(n \div Base)
RECURSIVE BAddC(_, _, _)
BAddC(a, b, c) ==
    IF a = <<>> /\ b = <<>> THEN (IF c = 0 THEN <<>> ELSE <<c>>)
    ELSE LET x == IF a = <<>> THEN 0 ELSE Head(a)
             y == IF b = <<>> THEN 0 ELSE Head(b)
             t == x + y + c
         IN <<t % Base>> \o BAddC(IF a = <<>> THEN a ELSE Tail(a),
                                  IF b = <<>> THEN b ELSE Tail(b), t \div Base)
BAdd(a, b) == BAddC(a, b, 0)
RECURSIVE BMulSmallC(_, _, _)
BMulSmallC(a, k, c) ==
    IF a = <<>> THEN FromNat(c)
    ELSE LET t == Head(a) * k + c
         IN <<t % Base>> \o BMulSmallC(Tail(a), k, t \div Base)
\* a * k for 0 <= k < Base
BMulSmall(a, k) == Trim(BMulSmallC(a, k, 0))
\* a * Base^n
BShiftLimbs(a, n) == IF a = <<>> THEN a ELSE [i \in 1..n |-> 0] \o a
RECURSIVE BMul(_, _)
BMul(a, b) ==
    IF b = <<>> THEN <<>>
    ELSE BAdd(BMulSmall(a, Head(b)), BShiftLimbs(BMul(a, Tail(b)), 1))
RECURSIVE BDivSmallC(_, _, _, _)
\* long division from the most significant limb; q collects the quotient
BDivSmallC(a, k, r, q) ==
    IF a = <<>> THEN [q |-> Trim(q), r |-> r]
    ELSE LET t == r * Base + a[Len(a)]
         IN BDivSmallC(SubSeq(a, 1, Len(a) - 1), k, t % k, <<t \div k>> \o q)
\* quotient and remainder of a by k, 0 < k < Base
BDivSmall(a, k) == BDivSmallC(a, k, 0, <<>>)
RECURSIVE BitsOf(_)
BitsOf(n) == IF n = 0 THEN 0 ELSE 1 + BitsOf(n \div 2)
BitLen(a) == IF a = <<>> THEN 0 ELSE LimbBits * (Len(a) - 1) + BitsOf(a[Len(a)])
\* a * 2^d
BShiftLeft(a, d) == BShiftLimbs(BMulSmall(a, 2 ^ (d % LimbBits)), d \div LimbBits)
\* floor(a / 2^s), and whether bits were lost
BShiftRight(a, s) ==
    LET n == s \div LimbBits
        low == SubSeq(a, 1, IF n < Len(a) THEN n ELSE Len(a))
        high == SubSeq(a, n + 1, Len(a))
        d == BDivSmall(high, 2 ^ (s % LimbBits))
    IN [q |-> d.q, sticky |-> d.r # 0 \/ \E i \in 1..Len(low) : low[i] # 0]
IsOdd(a) == a # <<>> /\ a[1] % 2 = 1

Zero == [m |-> <<>>, e |-> 0]
\* the double nearest to m * 2^e (plus a nonzero rest below it if sticky)
Round(m, e, sticky) ==
    LET len == BitLen(m)
    IN IF m = <<>> THEN Zero
       ELSE IF len <= Precision
       THEN [m |-> BShiftLeft(m, Precision - len), e |-> e - (Precision - len)]
       ELSE LET s == len - Precision
                h == BShiftRight(m, s - 1)
                q == BShiftRight(h.q, 1).q
                up == IsOdd(h.q) /\ (h.sticky \/ sticky \/ IsOdd(q))
                u == IF up THEN BAdd(q, <<1>>) ELSE q
            IN IF BitLen(u) > Precision
               THEN [m |-> BShiftRight(u, 1).q, e |-> e + s + 1]
               ELSE [m |-> u, e |-> e + s]
\* x + y
FAdd(x, y) ==
    IF x.m = <<>> THEN y
    ELSE IF y.m = <<>> THEN x
    ELSE LET e == IF x.e < y.e THEN x.e ELSE y.e
         IN Round(BAdd(BShiftLeft(x.m, x.e - e), BShiftLeft(y.m, y.e - e)), e, FALSE)
\* x * y
FMul(x, y) == Round(BMul(x.m, y.m), x.e + y.e, FALSE)
\* n / d for naturals n and 0 < d < Base
FDiv(n, d) ==
    LET k == Precision + BitsOf(d)
        v == BDivSmall(BShiftLeft(FromNat(n), k), d)
    IN Round(v.q, 0 - k, v.r # 0)

RECURSIVE ToNat(_)
ToNat(a) == IF a = <<>> THEN 0 ELSE Head(a) + Base * ToNat(Tail(a))
RECURSIVE BLeq(_, _)
\* a <= b, for a and b without leading zero limbs
BLeq(a, b) ==
    IF Len(a) # Len(b) THEN Len(a) < Len(b)
    ELSE \/ a = <<>>
         \/ a[Len(a)] < b[Len(b)]
         \/ /\ a[Len(a)] = b[Len(b)]
            /\ BLeq(Trim(SubSeq(a, 1, Len(a) - 1)), Trim(SubSeq(b, 1, Len(b) - 1)))
RECURSIVE QuotLimbs(_, _, _)
\* the remainder left after the next n limbs of r / d (r < d < 2^26),
\* followed by those limbs, the last one first; a limb is made 5 bits at a
\* time, so that 32 r stays within the integers
QuotLimbs(r, d, n) ==
    IF n = 0 THEN <<r>>
    ELSE LET r1 == (32 * r) % d
             r2 == (32 * r1) % d
             r3 == (32 * r2) % d
             limb == ((32 * r) \div d) * 1024 + ((32 * r1) \div d) * 32 + (32 * r2) \div d
         IN Append(QuotLimbs(r3, d, n - 1), limb)
\* n / d for naturals n and 0 < d < 2^26
FQuot(n, d) ==
    LET k == (Precision + 1 + BitsOf(d)) \div LimbBits + 1
        v == QuotLimbs(n % d, d, k)
    IN Round(Trim(BAdd(Tail(v), BShiftLimbs(FromNat(n \div d), k))),
             0 - k * LimbBits, Head(v) # 0)
RECURSIVE SqrtBits(_, _, _)
\* the largest r with r * r <= n, its bits from bit i down
SqrtBits(n, r, i) ==
    IF i < 0 THEN r
    ELSE IF BLeq(Trim(BMul(BAdd(r, BShiftLeft(<<1>>, i)), BAdd(r, BShiftLeft(<<1>>, i)))), n)
    THEN SqrtBits(n, BAdd(r, BShiftLeft(<<1>>, i)), i - 1)
    ELSE SqrtBits(n, r, i - 1)
\* Math.sqrt(x): the double nearest to the square root
FSqrt(x) ==
    IF x.m = <<>> THEN Zero
    ELSE LET k == IF x.e % 2 = 0 THEN Precision + 3 ELSE Precision + 2
             n == BShiftLeft(x.m, k)
             r == SqrtBits(n, <<>>, Precision + 2)
         IN Round(r, (x.e - k) \div 2, Trim(BMul(r, r)) # n)
\* the double of a natural below 2^29
FromInt(n) == Round(FromNat(n), 0, FALSE)
\* Math.floor(x) for 0 <= x < 2^29
Floor(x) ==
    IF x.m = <<>> THEN 0
    ELSE IF x.e >= 0 THEN ToNat(BShiftLeft(x.m, x.e))
    ELSE ToNat(BShiftRight(x.m, 0 - x.e).q)

\* server.js:21: the literal 0.01 is the double nearest to 1/100
COST_PER_1K_TOKENS == FDiv(1, 100)

\* Math.sqrt(MAX_SIZE_BYTES / (imageBuffer.length * 1.5)); length * 1.5 is
\* exact in doubles, so the quotient is the double nearest to
\* 2 MAX_SIZE_BYTES / 3 length
ScaleFactor(length) == FSqrt(FQuot(2 * MAX_SIZE_BYTES, 3 * length))
\* Math.floor(dimension * scaleFactor)
NewDimension(dimension, factor) == Floor(FMul(FromInt(dimension), factor))
\* (both are tabulated over the sizes and dimensions above, to compute them once)
scaleFactor == [n \in Sizes(ImageRoute) |-> ScaleFactor(n)]
Lengths == {d[i] : d \in Dimensions \ {<<>>}, i \in 1..2}
newDimension ==
    [n \in DOMAIN scaleFactor, d \in Lengths |-> NewDimension(d, scaleFactor[n])]

(* ----------------------------- JSON.parse ----------------------------- *)
\* A completion's text content is a sequence of lexical tokens.
JValue(kind, num, keys, items) ==
    [kind |-> kind, num |-> num, keys |-> keys, items |-> items]
JAbsent == JValue("absent", 0, <<>>, <<>>)
JNull == JValue("null", 0, <<>>, <<>>)
Digits == {"0", "1", "2", "3"}
NumOf(t) == CASE t = "0" -> 0 [] t = "1" -> 1 [] t = "2" -> 2 [] OTHER -> 3
KeyTokens == {"\"items\"", "\"tax\"", "\"total\""}
ParseFail == [ok |-> FALSE, val |-> JAbsent, rest |-> <<>>]

RECURSIVE ParseValue(_), ParseElements(_, _), ParseMembers(_, _, _)
\* value ::= null | digit | [ elements ] | { members }
ParseValue(toks) ==
    IF toks = <<>> THEN ParseFail
    ELSE LET t == Head(toks)
             r == Tail(toks)
         IN CASE t = "null" -> [ok |-> TRUE, val |-> JNull, rest |-> r]
              [] t \in Digits ->
                   [ok |-> TRUE, val |-> JValue("num", NumOf(t), <<>>, <<>>), rest |-> r]
              [] t = "[" ->
                   IF r # <<>> /\ Head(r) = "]"
                   THEN [ok |-> TRUE, val |-> JValue("arr", 0, <<>>, <<>>), rest |-> Tail(r)]
                   ELSE ParseElements(r, <<>>)
              [] t = "{" ->
                   IF r # <<>> /\ Head(r) = "}"
                   THEN [ok |-> TRUE, val |-> JValue("obj", 0, <<>>, <<>>), rest |-> Tail(r)]
                   ELSE ParseMembers(r, <<>>, <<>>)
              [] OTHER -> ParseFail
\* elements ::= value ( , value )* ]
ParseElements(toks, acc) ==
    LET v == ParseValue(toks)
    IN IF ~v.ok \/ v.rest = <<>> THEN ParseFail
       ELSE CASE Head(v.rest) = "]" ->
                   [ok |-> TRUE, val |-> JValue("arr", 0, <<>>, Append(acc, v.val)),
                    rest |-> Tail(v.rest)]
              [] Head(v.rest) = "," -> ParseElements(Tail(v.rest), Append(acc, v.val))
              [] OTHER -> ParseFail
\* members ::= key : value ( , key : value )* }
ParseMembers(toks, keys, acc) ==
    IF Len(toks) < 2 \/ Head(toks) \notin KeyTokens \/ toks[2] # ":" THEN ParseFail
    ELSE LET v == ParseValue(Tail(Tail(toks)))
         IN IF ~v.ok \/ v.rest = <<>> THEN ParseFail
            ELSE CASE Head(v.rest) = "}" ->
                        [ok |-> TRUE,
                         val |-> JValue("obj", 0, Append(keys, Head(toks)), Append(acc, v.val)),
                         rest |-> Tail(v.rest)]
                   [] Head(v.rest) = "," ->
                        ParseMembers(Tail(v.rest), Append(keys, Head(toks)), Append(acc, v.val))
                   [] OTHER -> ParseFail
\* JSON.parse(text): the value, or a SyntaxError when the text is not one value
JSONparse(toks) ==
    LET r == ParseValue(toks)
    IN IF r.ok /\ r.rest = <<>> THEN [ok |-> TRUE, val |-> r.val]
       ELSE [ok |-> FALSE, val |-> JAbsent]

\* the text contents a completion may carry
Contents ==
    { <<"{", "\"items\"", ":", "[", "3", "]", ",", "\"tax\"", ":", "1", "}">>,
      <<"[", "1", ",", "2", "]">>,
      <<"not", "json">>,
      <<"{", "\"tax\"", ":", "1">> }
NoContent == <<>>

(* ------------------------------- errors ------------------------------- *)
\* a thrown error: error.response?.data (Undefined when there is no response)
\* and error.message
Undefined == "undefined"
Err(data, message) == [data |-> data, message |-> message]
ENOENT == Err(Undefined, "ENOENT: no such file or directory")
PdfParseError == Err(Undefined, "Invalid PDF structure")
ErrorNotDefined == Err(Undefined, "error is not defined")
NoChoices == Err(Undefined, "Cannot read properties of undefined (reading 'message')")
SyntaxErrorMessage == "Unexpected token in JSON"
\* how axios.post rejects: no response at all, a non-2xx response with a body
\* (a missing credential is answered 401), a non-2xx response with an empty body
AxiosErrors ==
    { Err(Undefined, "Network Error"),
      Err("invalid api key", "Request failed with status code 401"),
      Err("", "Request failed with status code 502") }
\* error.response?.data || error.message
Details(error) ==
    IF error.data = Undefined \/ error.data = "" THEN error.message ELSE error.data

(* ------------------------------ responses ----------------------------- *)
\* success is "true", "false" or "absent" (the body has no success field)
Response(status, success, error, details) ==
    [status |-> status, success |-> success, error |-> error, details |-> details,
     message |-> "", extractedData |-> JAbsent, rawContent |-> NoContent]
NoResponse == Response(0, "absent", "", "")
TooManyRequests ==
    Response(429, "false",
             "Too many requests from this IP, please try again after 15 minutes", "")
NoFileUploaded == Response(400, "absent", "No file uploaded", "")
NoImageUploaded == Response(400, "absent", "No image uploaded", "")
ResizeFailed ==
    Response(400, "false", "Image processing failed",
             "Unable to resize image. Try uploading a smaller image.")
Extracted(value) == [Response(200, "true", "", "") EXCEPT !.extractedData = value]
\* lines 138-142; never sent, because evaluating its details throws
PdfParsingFailed(error) == Response(500, "false", "parsing failed", Details(error))
OpenAIFailed(error) == Response(500, "false", "OpenAI API failed", Details(error))
ImageParsingFailed(content) ==
    [Response(500, "false", "Parsing failed", SyntaxErrorMessage)
        EXCEPT !.rawContent = content]
ImageFailed(error) == Response(500, "false", "Image processing failed", Details(error))
ServerError(message) ==
    [Response(500, "false", "Server error", "") EXCEPT !.message = message]

(* -------------------------------- state ------------------------------- *)
VARIABLES
    totalRequests,    \* server.js:18
    totalTokensUsed,  \* server.js:19
    estimatedCost,    \* server.js:20
    hits,             \* the limiter's store: hits of each client in its window
    uploads,          \* uploads/: the content of each stored file, by path
    req,              \* the request in each slot
    arrived,          \* requests that have arrived
    reported,         \* sum of the total_tokens the completions reported
    admitted,         \* requests the limiter admitted, per client, in its window
    accepted          \* requests with '/upload-' in their path that no limiter refused

vars == <<totalRequests, totalTokensUsed, estimatedCost, hits, uploads, req,
          arrived, reported, admitted, accepted>>

NoFile == 0
NoCompletion == [state |-> "none", content |-> NoContent, error |-> Err("", "")]
\* (variant: every upload is stored under the same name)
PathShared(s) == 1
\* multer names each stored file afresh; the file of the request in slot s is s
PathOf(s) == s

Idle ==
    [pc |-> "idle", route |-> "", field |-> "", size |-> 0,
     bytes |-> <<>>,         \* the leading bytes of the uploaded file
     counted |-> 0,          \* increments of totalRequests made for it
     file |-> NoFile,        \* req.file.path, NoFile when req.file is undefined
     read |-> FALSE,         \* the handler has read the stored file
     buffer |-> NoBuffer,    \* fileBuffer / imageBuffer: what it read
     measured |-> FALSE,     \* sizeOf was called
     dimensions |-> <<>>,    \* what sizeOf returned, while in scope
     newWidth |-> 0,         \* while in scope
     newHeight |-> 0,        \* while in scope
     resizes |-> 0,          \* sharp(...).resize(...) calls
     resizeError |-> FALSE,  \* catch (resizeError) was entered
     extracted |-> FALSE,    \* text extraction / image normalisation succeeded
     resized |-> FALSE,      \* processedImageBuffer !== imageBuffer
     payload |-> <<>>,       \* base64Image in the completion request
     calls |-> 0,            \* completion calls made
     completion |-> NoCompletion,   \* how the completion call ended
     tried |-> 0,            \* fs.unlinkSync calls on the stored file
     unlinked |-> 0,         \* those that deleted it
     threw |-> FALSE,        \* the post-processing fs.unlinkSync threw
     added |-> 0,            \* tokens this request added to totalTokensUsed
     sent |-> 0,             \* response bodies sent
     res |-> NoResponse]

\* res.status(...).json(...): the body goes out; every handler returns right
\* after it
Send(r, response) == [r EXCEPT !.pc = "done", !.res = response, !.sent = @ + 1]

Init ==
    /\ totalRequests = 0
    /\ totalTokensUsed = 0
    /\ estimatedCost = Zero
    /\ hits = [c \in Clients |-> 0]
    /\ uploads = <<>>
    /\ req = [s \in Slots |-> Idle]
    /\ arrived = 0
    /\ reported = 0
    /\ admitted = [c \in Clients |-> 0]
    /\ accepted = 0

\* The response is sent and the handler returns in the same run of the event
\* loop, so no other continuation runs while a slot is "done".
NoneDone == \A s \in Slots : req[s].pc # "done"

(* ------------------------- limiter and tracking ----------------------- *)
\* (variant: the limiter lets one request too many through)
LimiterRejectsLate(totalHits) == totalHits > max + 1
\* express-rate-limit: a request is refused once the client's hits exceed max
LimiterRejects(totalHits) == totalHits > max
\* paths that no route handles and the limiter is not mounted on
OtherPaths == {"/", "/upload-other"}
\* req.path.includes('/upload-')
PathIncludesUpload(route) == route \in {PdfRoute, ImageRoute, "/upload-other"}
\* (variant: the tracking middleware counts a request twice)
TrackTwice(route, n) == IF PathIncludesUpload(route) THEN n + 2 ELSE n
\* the request tracking middleware
Track(route, n) == IF PathIncludesUpload(route) THEN n + 1 ELSE n
\* (variant: the tracking middleware is mounted before the limiter)
IntakeTrackFirst(refused, route, n) == Track(route, n)
\* The limiter is mounted before the tracking middleware (lines 40-50): a
\* request it refuses does not reach the tracking middleware.
Intake(refused, route, n) == IF refused THEN n ELSE Track(route, n)

\* A request arrives: the limiter counts it and refuses or admits it, the
\* tracking middleware counts it, and the upload middleware starts reading
\* the body.  Nothing has looked at the body yet.
Arrive(s, route, client) ==
    /\ NoneDone
    /\ req[s].pc = "idle"
    /\ \A t \in Slots : t < s => req[t].pc # "idle"
    /\ arrived < MaxArrivals
    /\ arrived >= MaxInFlight => \A t \in Slots : req[t].pc = "idle"
    /\ arrived' = arrived + 1
    /\ hits' = [hits EXCEPT ![client] = @ + 1]
    /\ LET r == [Idle EXCEPT !.route = route]
       IN IF LimiterRejects(hits'[client])
          THEN /\ req' = [req EXCEPT ![s] = Send(r, TooManyRequests)]
               /\ UNCHANGED <<admitted, accepted>>
          ELSE /\ req' = [req EXCEPT ![s] =
                             [r EXCEPT !.pc = "uploading",
                                       !.counted = Track(route, totalRequests) - totalRequests]]
               /\ admitted' = [admitted EXCEPT ![client] = @ + 1]
               /\ accepted' = accepted + 1
    /\ totalRequests' = Intake(LimiterRejects(hits'[client]), route, totalRequests)
    /\ UNCHANGED <<totalTokensUsed, estimatedCost, uploads, reported>>

\* A request arrives for a path that no route handles.  The limiter is not
\* mounted on it; the tracking middleware sees it, and it is answered 404 in
\* the same run of the event loop.
ArriveOther(path) ==
    /\ NoneDone
    /\ arrived < MaxArrivals
    /\ arrived >= MaxInFlight => \A t \in Slots : req[t].pc = "idle"
    /\ arrived' = arrived + 1
    /\ totalRequests' = Track(path, totalRequests)
    /\ accepted' = accepted + (IF path = "/upload-other" THEN 1 ELSE 0)
    /\ UNCHANGED <<totalTokensUsed, estimatedCost, hits, uploads, req, reported,
                   admitted>>

\* The client's window (windowMs) has passed: the store forgets its hits.
WindowExpires(client) ==
    /\ NoneDone
    /\ hits[client] > 0
    /\ hits' = [hits EXCEPT ![client] = 0]
    /\ admitted' = [admitted EXCEPT ![client] = 0]
    /\ UNCHANGED <<totalRequests, accepted, totalTokensUsed, estimatedCost, uploads, req,
                   arrived, reported>>

(* ------------------------------ file system --------------------------- *)
\* multer stores the uploaded file under its path
Store(disk, path, content) ==
    [p \in DOMAIN disk \cup {path} |-> IF p = path THEN content ELSE disk[p]]
\* fs.readFileSync(path), which throws when the file is not there
ReadThrows(disk, path) == path \notin DOMAIN disk
ReadFile(disk, path) == disk[path]
\* fs.unlinkSync(path): deletes the file, or throws when it is not there
UnlinkThrows(disk, path) == path \notin DOMAIN disk
Unlink(disk, path) == [p \in DOMAIN disk \ {path} |-> disk[p]]

\* The error handling middleware: delete req.file if set, answer 500.
ErrorMiddleware(r, disk, message) ==
    LET del == r.file # NoFile
        ok == del /\ ~UnlinkThrows(disk, r.file)
    IN [r |-> Send([r EXCEPT !.tried = @ + (IF del THEN 1 ELSE 0),
                             !.unlinked = @ + (IF ok THEN 1 ELSE 0)],
                   ServerError(message)),
        disk |-> IF ok THEN Unlink(disk, r.file) ELSE disk]

(* --------------------------- completion call -------------------------- *)
\* usage is <<>> when the response carries no usage, <<n>> for total_tokens n
Usages == {<<>>} \cup {<<n>> : n \in 0..MaxTokens}
Resolved(usage, content) ==
    [state |-> "resolved", usage |-> usage, content |-> content, error |-> Err("", "")]
\* what a request keeps of its completion: the usage goes into the counters
Kept(o) == [state |-> o.state, content |-> o.content, error |-> o.error]
Rejected(error) ==
    [state |-> "rejected", usage |-> <<>>, content |-> NoContent, error |-> error]
\* a 2xx response whose body has no choices[0] (and no usage)
Malformed ==
    [state |-> "malformed", usage |-> <<>>, content |-> NoContent, error |-> Err("", "")]
\* The token update (lines 117-123) reads the usage alone and the parse (lines
\* 129-143) the content alone: the outcomes vary one of the two at a time.
CompletionOutcomes ==
    {Resolved(u, <<"[", "1", ",", "2", "]">>) : u \in Usages}
    \cup {Resolved(<<1>>, c) : c \in Contents}
    \cup {Rejected(e) : e \in AxiosErrors}
    \cup {Malformed}

\* if (data.usage && data.usage.total_tokens)
HasTokens(usage) == usage # <<>> /\ usage[1] # 0
\* tokensUsed = data.usage.total_tokens; nothing is added without them
TokensUsed(usage) == IF HasTokens(usage) THEN usage[1] ELSE 0
\* totalTokensUsed += tokensUsed
AddTokens(total, tokensUsed) == total + tokensUsed
\* estimatedCost += (tokensUsed / 1000) * COST_PER_1K_TOKENS
\* ((tokensUsed / 1000) * COST_PER_1K_TOKENS is tabulated, to compute it once)
Amount == [t \in 1..MaxTokens |-> FMul(FDiv(t, 1000), COST_PER_1K_TOKENS)]
AddCost(cost, tokensUsed) == FAdd(cost, Amount[tokensUsed])
\* what the completion reported, for the accounting
Reported(outcome) ==
    IF outcome.state = "resolved" /\ outcome.usage # <<>> THEN outcome.usage[1] ELSE 0
\* the ways axios.post settles when the counter stands at `total`
Outcomes(total) == {o \in CompletionOutcomes : total + Reported(o) <= MaxTotalTokens}

(* ----------------------------- /upload-pdf ---------------------------- *)
\* (variant: after a failed first completion call the handler calls again)
PdfCatchRetry(r, error) ==
    IF r.calls = 1
    THEN [r EXCEPT !.pc = "calling", !.completion = NoCompletion, !.calls = @ + 1]
    ELSE Send(r, OpenAIFailed(error))
\* catch (error), lines 146-163.  filePath is a const of the try block, so
\* fs.existsSync(filePath) throws a ReferenceError that the inner catch logs:
\* nothing is deleted here.
PdfCatch(r, error) == Send(r, OpenAIFailed(error))

\* (variant: the handler without its no-file check)
PdfHandlerUnchecked(r, disk) ==
    IF ReadThrows(disk, r.file)
    THEN PdfCatch(r, ENOENT)
    ELSE [r EXCEPT !.pc = "extracting", !.read = TRUE, !.buffer = ReadFile(disk, r.file)]
\* The handler up to its first await: the no-file check, the file read, the
\* start of pdfParse.
PdfHandler(r, disk) ==
    IF r.file = NoFile
    THEN Send(r, NoFileUploaded)
    ELSE IF ReadThrows(disk, r.file)
    THEN PdfCatch(r, ENOENT)
    ELSE [r EXCEPT !.pc = "extracting", !.read = TRUE, !.buffer = ReadFile(disk, r.file)]

\* pdfParse settles: on success the handler sends the text to the completion
\* API and awaits it.
PdfParsed(s) ==
    LET r == req[s]
    IN /\ NoneDone
       /\ r.pc = "extracting"
       /\ \E ok \in BOOLEAN :
            req' = [req EXCEPT ![s] =
                      IF ok
                      THEN [r EXCEPT !.pc = "calling", !.extracted = TRUE, !.calls = @ + 1]
                      ELSE PdfCatch(r, PdfParseError)]
       /\ UNCHANGED <<totalRequests, accepted, totalTokensUsed, estimatedCost, hits, uploads,
                      arrived, reported, admitted>>

\* (variant: catch (error1) sends its body before the throw)
PdfParseCatchSends(r) ==
    PdfCatch(Send(r, PdfParsingFailed(ErrorNotDefined)), ErrorNotDefined)
\* catch (error1), lines 136-143: res.status(500) is called, but evaluating
\* the body throws the ReferenceError of `error` before .json(...) can send
\* it; the throw lands in catch (error).
PdfParseCatch(r) == PdfCatch(r, ErrorNotDefined)

\* Lines 125-143 after the token update: delete the file, parse the content,
\* answer.  A throw of fs.unlinkSync lands in catch (error); so does a body
\* without choices[0], by way of catch (error1).
PdfAnswer(r, disk, content) ==
    IF UnlinkThrows(disk, r.file)
    THEN [r |-> PdfCatch([r EXCEPT !.tried = @ + 1, !.threw = TRUE], ENOENT),
          disk |-> disk]
    ELSE LET d == [r EXCEPT !.tried = @ + 1, !.unlinked = @ + 1]
             parsed == JSONparse(content)
         IN [r |-> IF parsed.ok
                   THEN Send(d, Extracted(parsed.val))
                   ELSE PdfParseCatch(d),
             disk |-> Unlink(disk, r.file)]

\* axios.post settles on /upload-pdf.
PdfCompleted(s) ==
    LET r == req[s]
    IN /\ NoneDone
       /\ r.pc = "calling"
       /\ r.route = PdfRoute
       /\ \E o \in Outcomes(totalTokensUsed) :
            LET c == [r EXCEPT !.completion = Kept(o)]
            IN IF o.state = "rejected"
               THEN /\ req' = [req EXCEPT ![s] = PdfCatch(c, o.error)]
                    /\ UNCHANGED <<totalTokensUsed, estimatedCost, uploads, reported>>
               ELSE LET t == TokensUsed(o.usage)
                        a == PdfAnswer([c EXCEPT !.added = @ + t],
                                       uploads, o.content)
                    IN /\ totalTokensUsed' = IF HasTokens(o.usage)
                                             THEN AddTokens(totalTokensUsed, t)
                                             ELSE totalTokensUsed
                       /\ estimatedCost' = IF HasTokens(o.usage)
                                           THEN AddCost(estimatedCost, t)
                                           ELSE estimatedCost
                       /\ reported' = reported + Reported(o)
                       /\ req' = [req EXCEPT ![s] = a.r]
                       /\ uploads' = a.disk
       /\ UNCHANGED <<totalRequests, accepted, hits, arrived, admitted>>

(* ---------------------------- /upload-image --------------------------- *)
\* catch (error), lines 311-327: delete req.file.path (a throw is logged),
\* answer 500.
ImageCatch(r, disk, error) ==
    LET ok == ~UnlinkThrows(disk, r.file)
    IN [r |-> Send([r EXCEPT !.tried = @ + 1,
                             !.unlinked = @ + (IF ok THEN 1 ELSE 0)],
                   ImageFailed(error)),
        disk |-> IF ok THEN Unlink(disk, r.file) ELSE disk]

\* (variant: an image of exactly the budget is resized too)
NeedsResizeAtBudget(size) == size >= MAX_SIZE_BYTES
\* imageBuffer.length > MAX_SIZE_BYTES
NeedsResize(size) == size > MAX_SIZE_BYTES

\* (variant: after a failed resize the handler goes on with the original image)
ResizeCatchFallsThrough(r) ==
    [r EXCEPT !.pc = "calling", !.resizeError = TRUE, !.dimensions = <<>>,
              !.newWidth = 0, !.newHeight = 0,
              !.payload = Base64(r.buffer.bytes), !.calls = @ + 1]
\* catch (resizeError), lines 211-218: answer 400 and return; dimensions,
\* newWidth and newHeight go out of scope
ResizeCatch(r) ==
    Send([r EXCEPT !.resizeError = TRUE, !.dimensions = <<>>,
                   !.newWidth = 0, !.newHeight = 0],
         ResizeFailed)

\* The handler up to its first await: the no-file check, the file read, and
\* either the dimension read (sizeOf gives the dimensions or throws) and the
\* start of the resize, or the start of the completion call.
ImageHandler(r, disk, dimensions) ==
    IF r.file = NoFile
    THEN [r |-> Send(r, NoImageUploaded), disk |-> disk]
    ELSE IF ReadThrows(disk, r.file)
    THEN ImageCatch(r, disk, ENOENT)
    ELSE LET imageBuffer == ReadFile(disk, r.file)
             b == [r EXCEPT !.read = TRUE, !.buffer = imageBuffer]
         IN [r |-> IF NeedsResize(imageBuffer.length)
                   THEN IF dimensions = <<>>
                        THEN ResizeCatch([b EXCEPT !.measured = TRUE])
                        ELSE [b EXCEPT !.pc = "resizing", !.measured = TRUE,
                                       !.dimensions = dimensions,
                                       !.newWidth =
                                           newDimension[imageBuffer.length, dimensions[1]],
                                       !.newHeight =
                                           newDimension[imageBuffer.length, dimensions[2]],
                                       !.resizes = @ + 1]
                   ELSE [b EXCEPT !.pc = "calling", !.extracted = TRUE,
                                  !.payload = Base64(imageBuffer.bytes),
                                  !.calls = @ + 1],
             disk |-> disk]

\* sharp(...).toBuffer() settles: on success the handler sends the image to
\* the completion API and awaits it.
ImageResized(s) ==
    LET r == req[s]
    IN /\ NoneDone
       /\ r.pc = "resizing"
       /\ \E ok \in BOOLEAN :
            req' = [req EXCEPT ![s] =
                      IF ok
                      THEN [r EXCEPT !.pc = "calling", !.extracted = TRUE,
                                     !.resized = TRUE,
                                     !.payload = Base64(JpegBytes),
                                     !.dimensions = <<>>,
                                     !.newWidth = 0, !.newHeight = 0,
                                     !.calls = @ + 1]
                      ELSE ResizeCatch(r)]
       /\ UNCHANGED <<totalRequests, accepted, totalTokensUsed, estimatedCost, hits, uploads,
                      arrived, reported, admitted>>

\* catch (error1), lines 302-310: answer 500 with the raw content.  With a
\* body without choices[0], reading the raw content throws again after
\* res.status(500), before .json(...) can send; the throw lands in
\* catch (error), which finds the file deleted already.
ImageParseCatch(r, disk, content) ==
    IF r.completion.state = "malformed"
    THEN ImageCatch(r, disk, NoChoices)
    ELSE [r |-> Send(r, ImageParsingFailed(content)), disk |-> disk]

\* Lines 282-310 after the token update: delete the file (req.tempResizedPath
\* is never set), parse the content, answer.
ImageAnswer(r, disk, content) ==
    IF UnlinkThrows(disk, r.file)
    THEN ImageCatch([r EXCEPT !.tried = @ + 1, !.threw = TRUE], disk, ENOENT)
    ELSE LET d == [r EXCEPT !.tried = @ + 1, !.unlinked = @ + 1]
             parsed == JSONparse(content)
         IN IF parsed.ok
            THEN [r |-> Send(d, Extracted(parsed.val)), disk |-> Unlink(disk, r.file)]
            ELSE ImageParseCatch(d, Unlink(disk, r.file), content)

\* axios.post settles on /upload-image.
ImageCompleted(s) ==
    LET r == req[s]
    IN /\ NoneDone
       /\ r.pc = "calling"
       /\ r.route = ImageRoute
       /\ \E o \in Outcomes(totalTokensUsed) :
            LET c == [r EXCEPT !.completion = Kept(o)]
            IN IF o.state = "rejected"
               THEN LET a == ImageCatch(c, uploads, o.error)
                    IN /\ req' = [req EXCEPT ![s] = a.r]
                       /\ uploads' = a.disk
                       /\ UNCHANGED <<totalTokensUsed, estimatedCost, reported>>
               ELSE LET t == TokensUsed(o.usage)
                        a == ImageAnswer([c EXCEPT !.added = @ + t],
                                         uploads, o.content)
                    IN /\ totalTokensUsed' = IF HasTokens(o.usage)
                                             THEN AddTokens(totalTokensUsed, t)
                                             ELSE totalTokensUsed
                       /\ estimatedCost' = IF HasTokens(o.usage)
                                           THEN AddCost(estimatedCost, t)
                                           ELSE estimatedCost
                       /\ reported' = reported + Reported(o)
                       /\ req' = [req EXCEPT ![s] = a.r]
                       /\ uploads' = a.disk
       /\ UNCHANGED <<totalRequests, accepted, hits, arrived, admitted>>

(* --------------------------- upload middleware ----------------------- *)
\* multer's verdict on the body: "" when it accepts it
MulterError(route, field, size) ==
    CASE field = "none" -> ""
      [] field # ExpectedField(route) -> "Unexpected field"
      [] size > fileSize -> "File too large"
      [] OTHER -> ""

\* upload.single(field) has read the body, which carries the file part
\* `part`.  It hands its error to the error handling middleware, or stores
\* the file (`gone`: the environment removed it again during the upload) and
\* calls the route's handler, which runs up to its first await.
UploadOf(s, part, gone, dimensions) ==
    LET r == [req[s] EXCEPT !.field = part.field, !.size = part.size,
                            !.bytes = part.bytes]
        e == MulterError(r.route, r.field, r.size)
        stored == r.field # "none"
        f == IF stored THEN [r EXCEPT !.file = PathOf(s)] ELSE r
        disk == IF stored /\ ~gone
                THEN Store(uploads, PathOf(s), Buffer(part.size, part.bytes))
                ELSE uploads
    IN /\ NoneDone
       /\ r.pc = "uploading"
       /\ IF e # ""
          THEN LET m == ErrorMiddleware(r, uploads, e)
               IN /\ req' = [req EXCEPT ![s] = m.r]
                  /\ uploads' = m.disk
          ELSE IF r.route = PdfRoute
          THEN /\ req' = [req EXCEPT ![s] = PdfHandler(f, disk)]
               /\ uploads' = disk
          ELSE LET h == ImageHandler(f, disk, dimensions)
               IN /\ req' = [req EXCEPT ![s] = h.r]
                  /\ uploads' = h.disk
       /\ UNCHANGED <<totalRequests, accepted, totalTokensUsed, estimatedCost, hits, arrived,
                      reported, admitted>>

Upload(s) ==
    \E part \in Parts(req[s].route), gone \in BOOLEAN, dimensions \in Dimensions :
        UploadOf(s, part, gone, dimensions)

(* ----------------------------- environment ---------------------------- *)
\* Something other than the server removes a stored file from uploads/ while
\* its request awaits the completion call.  (A removal before the handler
\* reads the file is Upload's `gone`; between the read and the completion the
\* handler does not look at the file.)
ExternalRemove(path) ==
    /\ NoneDone
    /\ path \in DOMAIN uploads
    /\ \E s \in Slots : PathOf(s) = path /\ req[s].pc = "calling"
    /\ uploads' = Unlink(uploads, path)
    /\ UNCHANGED <<totalRequests, accepted, totalTokensUsed, estimatedCost, hits, req,
                   arrived, reported, admitted>>

\* The response has gone out and the request is over: its slot, and the name
\* of its stored file, are free for the next request.
Release(s) ==
    /\ req[s].pc = "done"
    /\ req' = [req EXCEPT ![s] = Idle]
    /\ uploads' = Unlink(uploads, PathOf(s))
    /\ UNCHANGED <<totalRequests, accepted, totalTokensUsed, estimatedCost, hits,
                   arrived, reported, admitted>>

Next ==
    \/ \E s \in Slots, route \in Routes, client \in Clients : Arrive(s, route, client)
    \/ \E path \in OtherPaths : ArriveOther(path)
    \/ \E client \in Clients : WindowExpires(client)
    \/ \E s \in Slots : Upload(s)
    \/ \E s \in Slots : PdfParsed(s)
    \/ \E s \in Slots : PdfCompleted(s)
    \/ \E s \in Slots : ImageResized(s)
    \/ \E s \in Slots : ImageCompleted(s)
    \/ \E path \in Slots : ExternalRemove(path)
    \/ \E s \in Slots : Release(s)

Spec == Init /\ [][Next]_vars

(* ------------------------------- claims ------------------------------- *)
\* the request in slot s has been answered
Answered(s) == req[s].pc = "done"
\* the completion call of the request in slot s returned content that parses
ParseableCompletion(s) ==
    /\ req[s].completion.state = "resolved"
    /\ JSONparse(req[s].completion.content).ok
Min(a, b) == IF a < b THEN a ELSE b

\* C1: once a request that stored an uploaded file has been answered, whatever
\* the outcome, its file is no longer in uploads/ and was deleted at most once.
C1_StoredFileDeleted ==
    \A s \in Slots :
        Answered(s) /\ req[s].file # NoFile
            => PathOf(s) \notin DOMAIN uploads /\ req[s].unlinked <= 1

\* C2: on /upload-pdf, when the completion call returned content that is not
\* parseable JSON (and the file deletion before it went through), the answer
\* is 500, success false, error "parsing failed".
C2_PdfParsingFailed ==
    \A s \in Slots :
        /\ Answered(s)
        /\ req[s].route = PdfRoute
        /\ req[s].completion.state = "resolved"
        /\ ~JSONparse(req[s].completion.content).ok
        /\ ~req[s].threw
        => /\ req[s].res.status = 500
           /\ req[s].res.success = "false"
           /\ req[s].res.error = "parsing failed"

\* (sum of ti / 1000) x COST_PER_1K_TOKENS, as the doubles compute it
DerivedCost(total) == FMul(FDiv(total, 1000), COST_PER_1K_TOKENS)
\* no request is between its arrival and its answer
AllComplete == \A s \in Slots : req[s].pc \in {"idle", "done"}

\* C3: under every interleaving of the requests, once all of them have
\* completed, totalTokensUsed is the sum of the token counts the completion
\* calls reported and estimatedCost is that sum / 1000 x COST_PER_1K_TOKENS.
C3_TokenAccounting ==
    AllComplete => /\ totalTokensUsed = reported
                   /\ estimatedCost = DerivedCost(reported)
\* the part of C3 that holds, at every moment: no increment of
\* totalTokensUsed is lost
TokensNeverLost == totalTokensUsed = reported

C6_ParsedVerbatim ==
    \A s \in Slots :
        Answered(s) /\ req[s].extracted /\ ParseableCompletion(s)
            => /\ req[s].res.status = 200
               /\ req[s].res.success = "true"
               /\ req[s].res.extractedData = JSONparse(req[s].completion.content).val

\* C7: an upload over the 20 MB limit is refused before the file is read,
\* extracted or sent to the completion API, with a 4xx answer.
C7_OversizedRejected ==
    \A s \in Slots :
        Answered(s) /\ req[s].size > fileSize
            => /\ ~req[s].read
               /\ req[s].calls = 0
               /\ req[s].res.status >= 400 /\ req[s].res.status < 500

\* C8: every error answer to an upload request carries success: false.
C8_ErrorEnvelope ==
    \A s \in Slots :
        Answered(s) /\ req[s].res.status >= 400 => req[s].res.success = "false"

\* C9: a throw of the post-processing file deletion does not change the
\* outcome: with extraction and completion succeeded and the content
\* parseable, the answer is still the 200 success.
C9_DeletionFailureLogged ==
    \A s \in Slots :
        Answered(s) /\ req[s].extracted /\ ParseableCompletion(s) /\ req[s].threw
            => /\ req[s].res.status = 200
               /\ req[s].res.success = "true"

\* C10: when the completion call fails, on both routes the answer is 500,
\* success false, error "OpenAI API failed", details the upstream error data
\* when present and the error message otherwise, and the request added nothing
\* to totalTokensUsed and estimatedCost.
C10_UpstreamFailure ==
    \A s \in Slots :
        Answered(s) /\ req[s].completion.state = "rejected"
            => /\ req[s].res.status = 500
               /\ req[s].res.success = "false"
               /\ req[s].res.error = "OpenAI API failed"
               /\ req[s].res.details = Details(req[s].completion.error)
               /\ req[s].added = 0

\* C11: on /upload-image, when the completion call succeeded and its content
\* is not parseable JSON, the answer is 500, success false, with rawContent
\* the completion's content as it came, and without extractedData.
C11_ImageRawContent ==
    \A s \in Slots :
        /\ Answered(s)
        /\ req[s].route = ImageRoute
        /\ req[s].completion.state = "resolved"
        /\ ~JSONparse(req[s].completion.content).ok
        => /\ req[s].res.status = 500
           /\ req[s].res.success = "false"
           /\ req[s].res.rawContent = req[s].completion.content
           /\ req[s].res.extractedData = JAbsent

RECURSIVE Base64Decode(_)
\* the bytes a base64 text stands for
Base64Decode(text) ==
    IF Len(text) < 4 THEN <<>>
    ELSE LET a == text[1]
             b == text[2]
             c == text[3]
             d == text[4]
         IN (CASE c = Pad -> <<a * 4 + b \div 16>>
               [] d = Pad -> <<a * 4 + b \div 16, (b % 16) * 16 + c \div 4>>
               [] OTHER -> <<a * 4 + b \div 16, (b % 16) * 16 + c \div 4, (c % 4) * 64 + d>>)
            \o Base64Decode(SubSeq(text, 5, Len(text)))

\* C12: for an image upload of at most MAX_SIZE_BYTES (15 MB), the payload of
\* the completion request is the base64 text of the uploaded bytes (it decodes
\* to them), and neither sizeOf nor the resize was called.
C12_PassThrough ==
    \A s \in Slots :
        /\ req[s].route = ImageRoute
        /\ req[s].calls > 0
        /\ req[s].size <= MAX_SIZE_BYTES
        => /\ req[s].payload = Base64(req[s].bytes)
           /\ Base64Decode(req[s].payload) = req[s].bytes
           /\ ~req[s].measured
           /\ req[s].resizes = 0
           /\ ~req[s].resized
\* an image of exactly the budget, four bytes long in the model, went to the
\* completion API and the request was answered 200
C12_Witness ==
    \E s \in Slots :
        /\ Answered(s) /\ req[s].route = ImageRoute
        /\ req[s].size = MAX_SIZE_BYTES
        /\ req[s].bytes = <<255, 216, 255, 224>>
        /\ req[s].calls = 1
        /\ req[s].res.status = 200

\* 3 n^2 size <= 2 d^2 MAX_SIZE_BYTES, in exact arithmetic
Fits(n, d, size) ==
    BLeq(Trim(BMulSmall(BMul(FromNat(n * n), FromNat(size)), 3)),
         Trim(BMulSmall(BMul(FromNat(d * d), FromNat(MAX_SIZE_BYTES)), 2)))
\* floor(d x sqrt(MAX_SIZE_BYTES / (size x 1.5))) in exact arithmetic: the
\* largest n with 3 n^2 size <= 2 d^2 MAX_SIZE_BYTES
ExactDimension ==
    [size \in Sizes(ImageRoute), d \in Lengths |->
        CHOOSE n \in 0..d : Fits(n, d, size) /\ ~Fits(n + 1, d, size)]

\* C13: for an image over the budget with dimensions (w, h), the dimensions
\* handed to the resize are floor(w x s) and floor(h x s) with
\* s = sqrt(MAX_SIZE_BYTES / (size x 1.5)), and each is smaller than the
\* original.
C13_ResizeDimensions ==
    \A s \in Slots :
        req[s].pc = "resizing"
            => /\ req[s].newWidth = ExactDimension[req[s].buffer.length, req[s].dimensions[1]]
               /\ req[s].newHeight = ExactDimension[req[s].buffer.length, req[s].dimensions[2]]
               /\ req[s].newWidth < req[s].dimensions[1]
               /\ req[s].newHeight < req[s].dimensions[2]
\* the part of C13 that holds: the new dimensions are smaller than the
\* original, and at most one below the exact value
DimensionsShrink ==
    \A s \in Slots :
        req[s].pc = "resizing"
            => /\ req[s].newWidth < req[s].dimensions[1]
               /\ req[s].newHeight < req[s].dimensions[2]
               /\ ExactDimension[req[s].buffer.length, req[s].dimensions[1]] - req[s].newWidth
                      \in {0, 1}
               /\ req[s].buffer.length = MAX_SIZE_BYTES + 1
                      => req[s].newWidth =
                             ExactDimension[req[s].buffer.length, req[s].dimensions[1]]

\* totalRequests is the number of requests with '/upload-' in their path that
\* no limiter refused, and every such request that is being processed, from
\* the moment the upload middleware starts to its answer, was counted once
RequestsCounted ==
    /\ totalRequests = accepted
    /\ \A s \in Slots :
         req[s].pc # "idle" /\ req[s].res # TooManyRequests => req[s].counted = 1

C15_ResizeFailure ==
    \A s \in Slots :
        req[s].resizeError
            => /\ Answered(s)
               /\ req[s].res.status = 400
               /\ req[s].res.success = "false"
               /\ req[s].res.error = "Image processing failed"
               /\ req[s].calls = 0
               /\ req[s].resizes <= 1
               /\ req[s].added = 0
\* a resize that was started has failed, after the counters had moved
C15_Witness ==
    /\ totalTokensUsed > 0
    /\ \E s \in Slots :
         /\ Answered(s) /\ req[s].resizeError
         /\ req[s].size > MAX_SIZE_BYTES
         /\ req[s].measured /\ req[s].resizes = 1

\* C16: a request makes at most one completion call, and only after the text
\* extraction or the image normalisation succeeded; once the extraction has
\* failed, or the call has settled (whether it failed upstream or its content
\* does not parse), the request has ended and no further call is made.
C16_OneCompletionCall ==
    \A s \in Slots :
        /\ req[s].calls <= 1
        /\ req[s].calls = 1 => req[s].extracted
        /\ req[s].pc = "calling" <=> req[s].calls = 1 /\ req[s].completion.state = "none"
        /\ req[s].completion.state # "none" => Answered(s) /\ req[s].calls = 1
        /\ req[s].read /\ ~req[s].extracted /\ req[s].pc \notin {"extracting", "resizing"}
               => Answered(s) /\ req[s].calls = 0
\* a request whose image was resized has ended after one call, which failed
\* upstream, while another request is waiting for its own call
C16_Witness ==
    \E s, t \in Slots :
        /\ Answered(s) /\ req[s].resized
        /\ req[s].completion.state = "rejected" /\ req[s].calls = 1
        /\ req[t].pc = "calling"

\* C17: whatever the interleaving, what a handler has read is the file stored
\* for its own request, and a step of one request (its handler, its cleanup
\* after an error, the error middleware) leaves every other request as it is:
\* the other's stored file stays in uploads/ with its content, and the other's
\* state and response do not change.
C17_Isolation ==
    [][\A s \in Slots :
         /\ req'[s].read => req'[s].buffer = Buffer(req'[s].size, req'[s].bytes)
         /\ (\E t \in Slots \ {s} : req'[t] # req[t])
                => /\ req'[s] = req[s]
                   /\ req[s].file # NoFile /\ req[s].file \in DOMAIN uploads
                          => /\ req[s].file \in DOMAIN uploads'
                             /\ uploads'[req[s].file] = uploads[req[s].file]]_vars
\* a request has failed and deleted its own file, while the file of another
\* request, which is waiting for its completion call, is still stored
C17_Witness ==
    \E s, t \in Slots :
        /\ s # t
        /\ Answered(s) /\ req[s].res.status = 500 /\ req[s].unlinked = 1
        /\ req[s].file \notin DOMAIN uploads
        /\ req[t].pc = "calling" /\ req[t].file \in DOMAIN uploads

\* C18: every request to an upload route is answered exactly once: on no path
\* (limiter, upload middleware, handlers with their nested catch blocks, error
\* middleware) is a body sent twice, and a request has ended if and only if
\* its one body has been sent.
C18_OneResponse ==
    \A s \in Slots :
        /\ req[s].sent <= 1
        /\ Answered(s) <=> req[s].sent = 1
        /\ Answered(s) <=> req[s].res # NoResponse
        /\ req[s].pc \in {"idle", "uploading", "extracting", "resizing", "calling", "done"}
\* an image request whose completion had no choices[0] went through
\* catch (error1) into catch (error) and was answered once
C18_Witness ==
    \E s \in Slots :
        /\ Answered(s) /\ req[s].route = ImageRoute
        /\ req[s].completion.state = "malformed"
        /\ req[s].tried = 2 /\ req[s].unlinked = 1
        /\ req[s].sent = 1 /\ req[s].res.error = "Image processing failed"

\* C19: the step in which the limiter refuses a request with 429 changes
\* nothing else: totalRequests, totalTokensUsed and estimatedCost stay, no
\* file is stored or deleted, no completion call is made, and the other
\* requests are left as they are.
C19_RefusedHasNoEffect ==
    [][\A s \in Slots :
         req[s].pc = "idle" /\ req'[s].res = TooManyRequests
             => /\ Answered(s)'
                /\ totalRequests' = totalRequests
                /\ totalTokensUsed' = totalTokensUsed
                /\ estimatedCost' = estimatedCost
                /\ uploads' = uploads
                /\ req'[s].file = NoFile /\ req'[s].tried = 0
                /\ req'[s].calls = 0 /\ req'[s].counted = 0
                /\ \A t \in Slots \ {s} : req'[t] = req[t]]_vars
\* a client's sixth request has been refused after its five requests were
\* counted and tokens were used
C19_Witness ==
    /\ totalRequests = max
    /\ totalTokensUsed > 0
    /\ \E s \in Slots, c \in Clients :
         /\ Answered(s) /\ req[s].res = TooManyRequests
         /\ hits[c] = max + 1

====
